---- MODULE Spec2Model ----
(***************************************************************************)
(* The command-line task tracker of src/todo-list.py as a state machine     *)
(* (Spec, SpecNoStorageFailure), and the sorting benchmark of              *)
(* src/sorting_algorithms.py (SortSpec), and the timer of src/pomodoro.py   *)
(* (PomodoroSpec).  The three are separate programs: each specification    *)
(* keeps the other programs' variables fixed.                              *)
(*                                                                         *)
(* One process run keeps three module globals (dict_tasks, history,        *)
(* next_id); exit_app writes tasks/tasks.csv and one YAML file per task,   *)
(* and main() of the next run reads them back.  The model keeps the        *)
(* process memory and the files side by side, so that what a run leaves on *)
(* disk and what the next run makes of it are both part of the state.      *)
(*                                                                         *)
(* Representation of Python values:                                        *)
(*   - free text typed by the user (owner, title, description, activity,   *)
(*     comment, uri) is a sequence of one-character strings, so that       *)
(*     str.strip and str.replace are computed, not assumed;                *)
(*   - a part of an f-string that the program never takes apart again (the *)
(*     decimal id at the end of a uri, the fixed words of an activity) is  *)
(*     one element of such a sequence;                                     *)
(*   - enumerated words (status, priority, action) and dates in ISO format *)
(*     are TLA+ strings;                                                   *)
(*   - finished_at, which is None or a str, is a sequence of length 0      *)
(*     (None) or 1 (the str);                                              *)
(*   - a dict is a function; dict_tasks.values() is taken in ascending key *)
(*     order, which is its insertion order (add_task always inserts a key  *)
(*     above every key present, load_csv inserts in file order).           *)
(* While pc = "exited" the memory variables keep the values the process    *)
(* had when it called sys.exit; main() replaces them.  The program may be  *)
(* run any number of times.                                                *)
(***************************************************************************)
EXTENDS Integers, Sequences, FiniteSets, TLC

VARIABLES
    dict_tasks,   \* id -> Task                      (todo-list.py:42)
    history,      \* defaultdict(list): id -> <<Entry>> (todo-list.py:43)
    next_id,      \* the id the next add_task assigns   (todo-list.py:44)
    csv_file,     \* tasks/tasks.csv: does it exist, and its data rows
    yaml_files,   \* tasks/<uri>.yaml: uri -> list of dicts, for the files that exist
    now,          \* the wall clock, counted in handlers that have read it
    pc,           \* "running" (in the menu loop of main) or "exited" (after sys.exit)
    assigned,     \* history variable: every id add_task has assigned, in any run
    out,          \* what the last handler reported on the console
    \* src/sorting_algorithms.py, the benchmark script (its own process)
    data,         \* the list generated_data returned                 (line 105)
    canon,        \* sorted(data, key=lambda x: x.CC)                  (line 106)
    times,        \* the (elapsed, result, func_name) tuples appended  (line 115)
    log,          \* what test_sort has logged so far
    sort_pc,      \* where the script is: "off" while the task tracker is the program
                  \* that runs, else "sorting", "ranking", "testing", "finished"
    \* src/pomodoro.py, the timer (its own process)
    step,         \* the local step of pomodoro()                      (line 31)
    lap,          \* the Cycle chosen for this step                    (line 34)
    lapse_i,      \* the position of "for lapse in (lap.work, lap.pause)": 0 or 1
    notified,     \* every notification.notify call so far, with the step it was made in
    pom_pc        \* "off", or the place in pomodoro(): "while", "notify", "sleep",
                  \* "returned" (the loop was left), "interrupted" (KeyboardInterrupt)

todo_vars == <<dict_tasks, history, next_id, csv_file, yaml_files, now, pc, assigned, out>>
sort_vars == <<data, canon, times, log, sort_pc>>
pom_vars == <<step, lap, lapse_i, notified, pom_pc>>
vars == <<todo_vars, sort_vars, pom_vars>>

-----------------------------------------------------------------------------
(* Bounds of the model *)

MaxClock == 3      \* a handler that reads the clock is explored while now < MaxClock

(* Program constants *)

BASE_ID == 1000    \* next_id = 1000

\* the ids and the clock values a behaviour within the bounds can reach
IdRange == BASE_ID .. (BASE_ID + MaxClock)
ClockRange == 0 .. (2 * MaxClock + 1)

-----------------------------------------------------------------------------
(* Python string helpers *)

RECURSIVE LStrip(_)
LStrip(s) == IF s # <<>> /\ Head(s) = " " THEN LStrip(Tail(s)) ELSE s

RECURSIVE RStrip(_)
RStrip(s) == IF s # <<>> /\ s[Len(s)] = " " THEN RStrip(SubSeq(s, 1, Len(s) - 1)) ELSE s

\* str.strip()
Strip(s) == RStrip(LStrip(s))

\* str.replace(' ', '_')
ReplaceSpaces(s) == [i \in 1..Len(s) |-> IF s[i] = " " THEN "_" ELSE s[i]]

\* str.upper() on the words the program applies it to
StrUpper(w) ==
    CASE w = "success" -> "SUCCESS"
      [] w = "failed" -> "FAILED"
      [] w = "low" -> "LOW"
      [] w = "medium" -> "MEDIUM"
      [] w = "high" -> "HIGH"
      [] w = "all" -> "ALL"
      [] w = "in progress" -> "IN PROGRESS"
      [] w = "done" -> "DONE"
      [] OTHER -> w

\* str(int) and int(str) for ids
IntToStr(n) == ToString(n)
StrToInt(s) == CHOOSE n \in IdRange : ToString(n) = s

\* datetime.isoformat() of clock value d, and the order of two such strings
isoformat(d) == "T" \o ToString(d)
DateValue(s) == CHOOSE d \in ClockRange : isoformat(d) = s

None == <<>>
Some(v) == <<v>>

\* the uri built from the owner as typed, spaces kept
make_uri_keeping_spaces(owner, id) == owner \o <<"_", IntToStr(id)>>

\* f"{owner.replace(' ', '_')}_{id}"
make_uri(owner, id) == ReplaceSpaces(owner) \o <<"_", IntToStr(id)>>

\* open(os.path.join(FOLDER, f"{uri}.yaml"), 'w') succeeds when the path names a
\* file directly in FOLDER; a "/" in the uri names a directory that does not exist
CanOpenForWrite(uri) == \A i \in 1..Len(uri) : uri[i] # "/"

-----------------------------------------------------------------------------
(* Data structures *)

Task(id, owner, title, description, priority, uri, status, created_at, finished_at) ==
    [id |-> id, owner |-> owner, title |-> title, description |-> description,
     priority |-> priority, uri |-> uri, status |-> status,
     created_at |-> created_at, finished_at |-> finished_at]

Entry(date, action, activity) ==
    [date |-> date, action |-> action, activity |-> activity]

TERMINAL == {"SUCCESS", "FAILED"}

\* get_date(): datetime.now().isoformat(), for the k-th reading of the clock by the
\* handler that runs at time now (k = 0, 1): every reading is later than the one before
get_date(k) == isoformat(2 * now + k)

\* history[k] of a defaultdict(list): a missing key reads as the empty list
HistoryOf(h, k) == IF k \in DOMAIN h THEN h[k] ELSE <<>>

\* the record put in front of the list: history[k].insert(0, e)
AppendEntry_at_front(h, k, e) ==
    [j \in (DOMAIN h) \cup {k} |-> IF j = k THEN <<e>> \o HistoryOf(h, k) ELSE h[j]]

\* history[k].append(e): a missing key is inserted
AppendEntry(h, k, e) ==
    [j \in (DOMAIN h) \cup {k} |-> IF j = k THEN Append(HistoryOf(h, k), e) ELSE h[j]]

\* history[k] evaluated for reading: a missing key is inserted with an empty list
Touch(h, k) ==
    [j \in (DOMAIN h) \cup {k} |-> IF j = k THEN HistoryOf(h, k) ELSE h[j]]

\* dict_tasks[k] = t
Put(d, k, t) == [j \in (DOMAIN d) \cup {k} |-> IF j = k THEN t ELSE d[j]]

\* the keys of a dict in ascending order, and its values in that order
RECURSIVE SortedKeys(_)
SortedKeys(S) ==
    IF S = {} THEN <<>>
    ELSE LET m == CHOOSE x \in S : \A y \in S : x <= y
         IN <<m>> \o SortedKeys(S \ {m})

Values(d) == LET ks == SortedKeys(DOMAIN d) IN [i \in 1..Len(ks) |-> d[ks[i]]]

\* the bound on the handlers that append a record (each reads the clock)
Room == now < MaxClock

\* the typed value taken even when it is empty
Or_first(x, y) == x

\* x or y, for strings
Or(x, y) == IF x # <<>> THEN x ELSE y

-----------------------------------------------------------------------------
(* Utilities *)

\* dict_tasks.get(int(task_id)): the task, or None
find_task(task_id) ==
    IF task_id \in DOMAIN dict_tasks THEN Some(dict_tasks[task_id]) ELSE None

-----------------------------------------------------------------------------
(* CSV persistence *)

\* csv.DictWriter.writerow(task._asdict()): every field as text, None as ''
task_to_row(t) ==
    [id |-> IntToStr(t.id), owner |-> t.owner, title |-> t.title,
     description |-> t.description, priority |-> t.priority, uri |-> t.uri,
     status |-> t.status, created_at |-> t.created_at,
     finished_at |-> IF t.finished_at = None THEN "" ELSE t.finished_at[1]]

\* the Task built from one csv.DictReader row
row_to_task(row) ==
    Task(StrToInt(row.id), Strip(row.owner), Strip(row.title), Strip(row.description),
         StrUpper(row.priority), Strip(row.uri), row.status, row.created_at,
         Some(row.finished_at))

\* if row.get('id') and row.get('title')
row_accepted(row) == row.id # "" /\ row.title # <<>>

\* the file save_csv leaves: header and one row per task, or an empty file
save_csv(tasks) ==
    LET values == Values(tasks)
    IN [exists |-> TRUE, rows |-> [i \in 1..Len(values) |-> task_to_row(values[i])]]

\* the dict load_csv returns: tasks[task.id] = task for every accepted row, in file order
load_csv(file) ==
    IF ~file.exists THEN <<>>
    ELSE LET ok == {i \in 1..Len(file.rows) : row_accepted(file.rows[i])}
             ids == {StrToInt(file.rows[i].id) : i \in ok}
             last(k) == CHOOSE i \in ok : /\ StrToInt(file.rows[i].id) = k
                                          /\ \A j \in ok : StrToInt(file.rows[j].id) = k => j <= i
         IN [k \in ids |-> row_to_task(file.rows[last(k)])]

\* next_id set to the largest loaded key, without the + 1
loaded_next_id_stale(tasks) ==
    IF DOMAIN tasks # {}
    THEN CHOOSE m \in DOMAIN tasks : \A k \in DOMAIN tasks : k <= m
    ELSE BASE_ID

\* next_id after load_csv in a fresh process
loaded_next_id(tasks) ==
    IF DOMAIN tasks # {}
    THEN (CHOOSE m \in DOMAIN tasks : \A k \in DOMAIN tasks : k <= m) + 1
    ELSE BASE_ID

-----------------------------------------------------------------------------
(* YAML persistence (history) *)

Entry_asdict(e) == [date |-> e.date, action |-> e.action, activity |-> e.activity]
Entry_from(item) == Entry(item.date, item.action, item.activity)

\* yaml.dump([entry._asdict() for entry in history[task_id]])
yaml_dump(entries) == [i \in 1..Len(entries) |-> Entry_asdict(entries[i])]

\* load_history(task_id) for the task t
load_history(files, t) ==
    IF t.uri \notin DOMAIN files THEN <<>>
    ELSE [i \in 1..Len(files[t.uri]) |-> Entry_from(files[t.uri][i])]

\* the ids whose history exit_app writes: save_history is called for the keys with a
\* non-empty list, returns early for an id that is not a task, and logs the error
\* of an open() that fails
saved_ids(tasks, h) ==
    {k \in DOMAIN h : h[k] # <<>> /\ k \in DOMAIN tasks /\ CanOpenForWrite(tasks[k].uri)}

\* the YAML files after save_history ran for every key of history
save_history(files, tasks, h) ==
    LET written == {tasks[k].uri : k \in saved_ids(tasks, h)}
        owner_of(u) == CHOOSE k \in saved_ids(tasks, h) : tasks[k].uri = u
    IN [u \in (DOMAIN files) \cup written |->
           IF u \in written THEN yaml_dump(h[owner_of(u)]) ELSE files[u]]

\* main() without its loop over load_history
load_all_history_skipped(files, tasks) == <<>>

\* the history main() builds: history[task_id] = loaded_history when it is non-empty
load_all_history(files, tasks) ==
    LET S == {k \in DOMAIN tasks : load_history(files, tasks[k]) # <<>>}
    IN [k \in S |-> load_history(files, tasks[k])]

-----------------------------------------------------------------------------
(* Inputs typed at the prompts *)

OwnerInputs == {<<"a", " ", "b", " ">>}
NewOwnerInputs == {<<>>, <<"c">>, <<"a", "/", "b">>}
NewDescriptionInputs == {<<>>}
TitleInputs == {<<" ">>, <<"t">>}
DescriptionInputs == {<<"d">>}
PriorityInputs == {"3", "x"}
ActivityInputs == {<<"n">>}
CommentInputs == {<<"c">>}
StatusInputs == {"success", "FAILED", "x"}
FilterInputs == {"", "in progress", "DONE", "FAILED", "x"}

\* the ids typed: those given out so far in this run or loaded, and one more
IdInputs == BASE_ID .. next_id

-----------------------------------------------------------------------------
(* CRUD operations *)

priority_map(choice) ==
    CASE choice = "1" -> "LOW"
      [] choice = "2" -> "MEDIUM"
      [] choice = "3" -> "HIGH"
      [] OTHER -> "LOW"

\* the counter advanced before it is used
new_id_advanced == next_id + 1

\* the id add_task gives the new task
new_id == next_id

add_task(owner_in, title_in, description_in, priority_choice) ==
    /\ pc = "running"
    /\ Room
    /\ LET owner == Strip(owner_in)
           title == Strip(title_in)
           description == Strip(description_in)
           priority == priority_map(priority_choice)
           uri == make_uri(owner, new_id)
           task == Task(new_id, owner, title, description, priority, uri,
                        "IN PROGRESS", get_date(0), None)
       IN /\ dict_tasks' = Put(dict_tasks, new_id, task)
          /\ history' = AppendEntry(history, new_id,
                 Entry(get_date(1), "CREATED", <<"Task '">> \o title \o <<"' created">>))
    /\ out' = "Task added successfully!"
    /\ assigned' = assigned \cup {new_id}
    /\ next_id' = next_id + 1
    /\ now' = now + 1
    /\ UNCHANGED <<csv_file, yaml_files, pc, sort_vars, pom_vars>>

\* the early return reading history[task_id] of the defaultdict on its way out
not_found_touching(task_id) ==
    /\ find_task(task_id) = None
    /\ out' = "Task not found."
    /\ history' = Touch(history, task_id)
    /\ UNCHANGED <<dict_tasks, next_id, csv_file, yaml_files, now, pc, assigned, sort_vars, pom_vars>>

\* "if not task: return" of update_task, add_entry and finalize_task
not_found(task_id) ==
    /\ find_task(task_id) = None
    /\ out' = "Task not found."
    /\ UNCHANGED <<dict_tasks, history, next_id, csv_file, yaml_files, now, pc, assigned, sort_vars, pom_vars>>

update_task(task_id, title_in, description_in, owner_in) ==
    /\ pc = "running"
    /\ \/ not_found(task_id)
       \/ /\ find_task(task_id) # None
          /\ Room
          /\ LET task == dict_tasks[task_id]
                 title == Or(Strip(title_in), task.title)
                 description == Or(Strip(description_in), task.description)
                 owner == Or(Strip(owner_in), task.owner)
                 uri == make_uri(owner, task_id)
                 updated_task == [task EXCEPT !.title = title, !.description = description,
                                              !.owner = owner, !.uri = uri]
             IN /\ dict_tasks' = Put(dict_tasks, task_id, updated_task)
                /\ history' = AppendEntry(history, task_id,
                       Entry(get_date(0), "UPDATED", <<"Task updated: ">> \o title))
          /\ now' = now + 1
          /\ out' = "Task updated successfully!"
          /\ UNCHANGED <<next_id, csv_file, yaml_files, pc, assigned, sort_vars, pom_vars>>

add_entry(task_id, activity_in) ==
    /\ pc = "running"
    /\ \/ not_found(task_id)
       \/ /\ find_task(task_id) # None
          /\ Room
          /\ history' = AppendEntry(history, task_id,
                 Entry(get_date(0), "ENTRY", Strip(activity_in)))
          /\ now' = now + 1
          /\ out' = "Entry added to task"
          /\ UNCHANGED <<dict_tasks, next_id, csv_file, yaml_files, pc, assigned, sort_vars, pom_vars>>

\* the check with FAILED left out of the list
already_completed_success_only(task) == task.status = "SUCCESS"

\* task.status in ['SUCCESS', 'FAILED']
already_completed(task) == task.status \in TERMINAL

\* the completion prompt without its validation loop
status_accepted_any(status) == TRUE

\* the answers the completion prompt accepts; any other answer is asked again
status_accepted(status) == status \in TERMINAL

finalize_task(task_id, status_in, comment_in) ==
    /\ pc = "running"
    /\ \/ not_found(task_id)
       \/ /\ find_task(task_id) # None
          /\ already_completed(dict_tasks[task_id])
          /\ out' = "Task already completed."
          /\ UNCHANGED <<dict_tasks, history, next_id, csv_file, yaml_files, now, pc, assigned, sort_vars, pom_vars>>
       \/ /\ find_task(task_id) # None
          /\ ~already_completed(dict_tasks[task_id])
          /\ status_accepted(StrUpper(status_in))
          /\ Room
          /\ LET task == dict_tasks[task_id]
                 status == StrUpper(status_in)
                 updated_task == [task EXCEPT !.status = status,
                                              !.finished_at = Some(get_date(0))]
             IN /\ dict_tasks' = Put(dict_tasks, task_id, updated_task)
                /\ history' = AppendEntry(history, task_id,
                       Entry(get_date(1), "COMPLETED",
                             <<"Task marked as ", status, ". Comment: ">> \o Strip(comment_in)))
          /\ now' = now + 1
          /\ out' = "Task finished!"
          /\ UNCHANGED <<next_id, csv_file, yaml_files, pc, assigned, sort_vars, pom_vars>>

-----------------------------------------------------------------------------
(* Views *)

\* the list view_tasks returns for the filter typed
tasks_by_status(status_filter) ==
    LET all == Values(dict_tasks)
        in_progress(t) == t.status = "IN PROGRESS"
        done(t) == t.status \in {"SUCCESS", "FAILED"}
        success(t) == t.status = "SUCCESS"
        failed(t) == t.status = "FAILED"
    IN CASE status_filter = "ALL" -> all
         [] status_filter = "IN PROGRESS" -> SelectSeq(all, in_progress)
         [] status_filter = "DONE" -> SelectSeq(all, done)
         [] status_filter = "SUCCESS" -> SelectSeq(all, success)
         [] status_filter = "FAILED" -> SelectSeq(all, failed)
         [] OTHER -> all

\* input(...).strip().upper() or "ALL"
filter_typed(filter_in) == IF StrUpper(filter_in) = "" THEN "ALL" ELSE StrUpper(filter_in)

\* what tabulate_print prints for the data a view returns
printed(rows) == IF rows = <<>> THEN "No data to display." ELSE "(table)"

view_tasks(filter_in) ==
    /\ pc = "running"
    /\ out' = printed(tasks_by_status(filter_typed(filter_in)))
    /\ UNCHANGED <<dict_tasks, history, next_id, csv_file, yaml_files, now, pc, assigned, sort_vars, pom_vars>>

view_history(task_id) ==
    /\ pc = "running"
    /\ \/ /\ find_task(task_id) = None
          /\ out' = "Task not found."
          /\ UNCHANGED history
       \/ /\ find_task(task_id) # None
          /\ history' = Touch(history, task_id)
          /\ out' = printed(HistoryOf(history, task_id))
    /\ UNCHANGED <<dict_tasks, next_id, csv_file, yaml_files, now, pc, assigned, sort_vars, pom_vars>>

-----------------------------------------------------------------------------
(* Process exit and start *)

exit_app ==
    /\ pc = "running"
    /\ csv_file' = save_csv(dict_tasks)
    /\ yaml_files' = save_history(yaml_files, dict_tasks, history)
    /\ pc' = "exited"
    /\ out' = "Data saved successfully. Goodbye!"
    /\ UNCHANGED <<dict_tasks, history, next_id, now, assigned, sort_vars, pom_vars>>

main ==
    /\ pc = "exited"
    /\ LET tasks == load_csv(csv_file)
       IN /\ dict_tasks' = tasks
          /\ next_id' = loaded_next_id(tasks)
          /\ history' = load_all_history(yaml_files, tasks)
    /\ pc' = "running"
    /\ out' = "TODO LIST APPLICATION"
    /\ UNCHANGED <<csv_file, yaml_files, now, assigned, sort_vars, pom_vars>>

-----------------------------------------------------------------------------

Init ==
    /\ dict_tasks = <<>>
    /\ history = <<>>
    /\ next_id = BASE_ID
    /\ csv_file = [exists |-> FALSE, rows |-> <<>>]
    /\ yaml_files = <<>>
    /\ now = 0
    /\ pc = "running"
    /\ assigned = {}
    /\ out = "TODO LIST APPLICATION"
    /\ data = <<>> /\ canon = <<>> /\ times = <<>> /\ log = <<>> /\ sort_pc = "off"
    /\ step = 0 /\ lap = <<>> /\ lapse_i = 0 /\ notified = <<>> /\ pom_pc = "off"

Next ==
    \/ \E o \in OwnerInputs, t \in TitleInputs, d \in DescriptionInputs, p \in PriorityInputs :
         add_task(o, t, d, p)
    \/ \E i \in IdInputs, t \in TitleInputs, d \in NewDescriptionInputs, o \in NewOwnerInputs :
         update_task(i, t, d, o)
    \/ \E f \in FilterInputs : view_tasks(f)
    \/ \E i \in IdInputs, s \in StatusInputs, c \in CommentInputs : finalize_task(i, s, c)
    \/ \E i \in IdInputs, a \in ActivityInputs : add_entry(i, a)
    \/ \E i \in IdInputs : view_history(i)
    \/ exit_app
    \/ main

Spec == Init /\ [][Next]_vars

\* The runs in which every open() of a log file succeeds: the owners typed at the
\* update prompt give a uri that names a file directly in FOLDER
WritableOwnerInputs == {o \in NewOwnerInputs : CanOpenForWrite(make_uri(Strip(o), BASE_ID))}

NextNoStorageFailure ==
    \/ \E o \in OwnerInputs, t \in TitleInputs, d \in DescriptionInputs, p \in PriorityInputs :
         add_task(o, t, d, p)
    \/ \E i \in IdInputs, t \in TitleInputs, d \in NewDescriptionInputs, o \in WritableOwnerInputs :
         update_task(i, t, d, o)
    \/ \E f \in FilterInputs : view_tasks(f)
    \/ \E i \in IdInputs, s \in StatusInputs, c \in CommentInputs : finalize_task(i, s, c)
    \/ \E i \in IdInputs, a \in ActivityInputs : add_entry(i, a)
    \/ \E i \in IdInputs : view_history(i)
    \/ exit_app
    \/ main

SpecNoStorageFailure == Init /\ [][NextNoStorageFailure]_vars

-----------------------------------------------------------------------------
(* src/sorting_algorithms.py: the benchmark of four sorting functions.      *)
(* Positions in lists are counted from 0 as in the source; a list is a      *)
(* sequence, so position p is element p + 1.                                *)

MaxLen == 3        \* generated_data returns a list of at most MaxLen records
MaxCC == 2         \* random.randint gives a CC in 1 .. MaxCC

\* User(CC, name, last_name, phone_number, email): name stands for the four fields
\* after CC, as a number whose order is the order of those fields
NameCodes == {1, 2}
User(CC, name) == [CC |-> CC, name |-> name]
Users == {User(c, n) : c \in 1..MaxCC, n \in NameCodes}

\* a < b for two namedtuples: tuples compare field by field
TupleLess(a, b) == a.CC < b.CC \/ (a.CC = b.CC /\ a.name < b.name)

\* the lists generated_data can return
DataInputs == UNION {[1..n -> Users] : n \in 0..MaxLen}

\* lst[p], lst[q] = lst[q], lst[p]
Swap(lst, p, q) == [lst EXCEPT ![p + 1] = lst[q + 1], ![q + 1] = lst[p + 1]]

\* heapq._siftdown(heap, startpos, pos)
RECURSIVE siftdown_loop(_, _, _, _)
siftdown_loop(heap, startpos, pos, newitem) ==
    IF pos > startpos
    THEN LET parentpos == (pos - 1) \div 2
             parent == heap[parentpos + 1]
         IN IF TupleLess(newitem, parent)
            THEN siftdown_loop([heap EXCEPT ![pos + 1] = parent], startpos, parentpos, newitem)
            ELSE [heap EXCEPT ![pos + 1] = newitem]
    ELSE [heap EXCEPT ![pos + 1] = newitem]

siftdown(heap, startpos, pos) == siftdown_loop(heap, startpos, pos, heap[pos + 1])

\* the while loop of heapq._siftup: the heap and the position where it stops
RECURSIVE siftup_loop(_, _, _)
siftup_loop(heap, pos, childpos) ==
    IF childpos < Len(heap)
    THEN LET rightpos == childpos + 1
             smaller == IF /\ rightpos < Len(heap)
                           /\ ~TupleLess(heap[childpos + 1], heap[rightpos + 1])
                        THEN rightpos ELSE childpos
         IN siftup_loop([heap EXCEPT ![pos + 1] = heap[smaller + 1]], smaller, 2 * smaller + 1)
    ELSE <<heap, pos>>

\* heapq._siftup(heap, pos)
siftup(heap, pos) ==
    LET newitem == heap[pos + 1]
        r == siftup_loop(heap, pos, 2 * pos + 1)
    IN siftdown([r[1] EXCEPT ![r[2] + 1] = newitem], pos, r[2])

\* heapq.heappush(heap, item): the heap afterwards
heappush(heap, item) == siftdown(Append(heap, item), 0, Len(heap))

\* heapq.heappop(heap): the heap afterwards and the item returned
heappop(heap) ==
    LET lastelt == heap[Len(heap)]
        rest == SubSeq(heap, 1, Len(heap) - 1)
    IN IF rest # <<>>
       THEN <<siftup([rest EXCEPT ![1] = lastelt], 0), rest[1]>>
       ELSE <<rest, lastelt>>

\* for value in iterable: heapq.heappush(h, value)
RECURSIVE push_all(_, _)
push_all(h, iterable) ==
    IF iterable = <<>> THEN h ELSE push_all(heappush(h, Head(iterable)), Tail(iterable))

\* [heapq.heappop(h) for i in range(n)]
RECURSIVE pop_all(_, _)
pop_all(h, n) ==
    IF n = 0 THEN <<>>
    ELSE LET r == heappop(h) IN <<r[2]>> \o pop_all(r[1], n - 1)

heapsort(iterable) == LET h == push_all(<<>>, iterable) IN pop_all(h, Len(h))

\* for j in range(len(iterable) - 1): swap when iterable[j].CC > iterable[j + 1].CC
RECURSIVE bubble_inner(_, _)
bubble_inner(iterable, j) ==
    IF j < Len(iterable) - 1
    THEN bubble_inner(IF iterable[j + 1].CC > iterable[j + 2].CC
                      THEN Swap(iterable, j, j + 1) ELSE iterable, j + 1)
    ELSE iterable

\* for i in range(len(iterable))
RECURSIVE bubble_outer(_, _)
bubble_outer(iterable, i) ==
    IF i < Len(iterable) THEN bubble_outer(bubble_inner(iterable, 0), i + 1) ELSE iterable

\* works on data.copy()
bubblesort(lst) == bubble_outer(lst, 0)

\* sorted(lst, key=lambda x: x.CC): ascending CC, records of equal CC in the order
\* they have in lst (the built-in sort is stable)
RECURSIVE sorted_by_CC(_)
sorted_by_CC(lst) ==
    IF lst = <<>> THEN <<>>
    ELSE LET front == sorted_by_CC(SubSeq(lst, 1, Len(lst) - 1))
             x == lst[Len(lst)]
             k == Cardinality({n \in 1..Len(front) : front[n].CC <= x.CC})
         IN SubSeq(front, 1, k) \o <<x>> \o SubSeq(front, k + 1, Len(front))

python_sort(lst) == sorted_by_CC(lst)

\* the for loop of _partition: the list and i when j reaches high
RECURSIVE partition_loop(_, _, _, _, _)
partition_loop(iterable, j, high, i, pivot) ==
    IF j < high
    THEN IF iterable[j + 1].CC <= pivot
         THEN partition_loop(Swap(iterable, i + 1, j), j + 1, high, i + 1, pivot)
         ELSE partition_loop(iterable, j + 1, high, i, pivot)
    ELSE <<iterable, i>>

\* _partition(iterable, low, high): the list afterwards and the index returned
partition(iterable, low, high) ==
    LET r == partition_loop(iterable, low, high, low - 1, iterable[high + 1].CC)
    IN <<Swap(r[1], r[2] + 1, high), r[2] + 1>>

\* _quicksort(iterable, low, high): the list afterwards
RECURSIVE quicksort_rec(_, _, _)
quicksort_rec(iterable, low, high) ==
    IF low < high
    THEN LET p == partition(iterable, low, high)
         IN quicksort_rec(quicksort_rec(p[1], low, p[2] - 1), p[2] + 1, high)
    ELSE iterable

\* works on data.copy()
quicksort(lst) == quicksort_rec(lst, 0, Len(lst) - 1)

func_list == <<"heapsort", "bubblesort", "python_sort", "quicksort">>

\* f(data) for the function named f; the wrapper returns (elapsed, result, func_name)
timing(f, lst) ==
    [result |-> CASE f = "heapsort" -> heapsort(lst)
                  [] f = "bubblesort" -> bubblesort(lst)
                  [] f = "python_sort" -> python_sort(lst)
                  [] f = "quicksort" -> quicksort(lst),
     func_name |-> f]

\* what test_sort logs
test_sort(func_name, sorted_data, real_sorted_data) ==
    [func_name |-> func_name,
     level |-> IF real_sorted_data = sorted_data THEN "INFO" ELSE "ERROR"]

\* one turn of "for f in func_list: times.append(f(data))"; no function assigns to
\* an element of data (heapsort reads it, the others work on a copy)
sort_loop ==
    /\ sort_pc = "sorting"
    /\ LET f == func_list[Len(times) + 1]
       IN times' = Append(times, timing(f, data))
    /\ sort_pc' = IF Len(times) + 1 = Len(func_list) THEN "ranking" ELSE "sorting"
    /\ UNCHANGED <<data, canon, log, todo_vars, pom_vars>>

\* times.sort(key=lambda x: x[0]): the order of the elapsed times, which is any order
rank_times ==
    /\ sort_pc = "ranking"
    /\ \E p \in Permutations(1..Len(times)) : times' = [k \in 1..Len(times) |-> times[p[k]]]
    /\ sort_pc' = "testing"
    /\ UNCHANGED <<data, canon, log, todo_vars, pom_vars>>

\* one turn of "for (timed, result, func_name) in times: test_sort(...)"
test_loop ==
    /\ sort_pc = "testing"
    /\ LET t == times[Len(log) + 1]
       IN log' = Append(log, test_sort(t.func_name, t.result, canon))
    /\ sort_pc' = IF Len(log) + 1 = Len(times) THEN "finished" ELSE "testing"
    /\ UNCHANGED <<data, canon, times, todo_vars, pom_vars>>

\* the script after "canon = sorted(data, key=lambda x: x.CC)"; the task tracker is
\* not running and has left nothing on disk
SortInit ==
    /\ data \in DataInputs
    /\ canon = sorted_by_CC(data)
    /\ times = <<>>
    /\ log = <<>>
    /\ sort_pc = "sorting"
    /\ dict_tasks = <<>> /\ history = <<>> /\ next_id = BASE_ID
    /\ csv_file = [exists |-> FALSE, rows |-> <<>>] /\ yaml_files = <<>>
    /\ now = 0 /\ pc = "exited" /\ assigned = {} /\ out = ""
    /\ step = 0 /\ lap = <<>> /\ lapse_i = 0 /\ notified = <<>> /\ pom_pc = "off"

SortNext ==
    \/ sort_loop
    \/ rank_times
    \/ test_loop

SortSpec == SortInit /\ [][SortNext]_vars

-----------------------------------------------------------------------------
(* src/pomodoro.py: the timer loop *)

MaxStep == 12      \* the loop is explored while step < MaxStep

CYCLES == 4
DISPLAY == 10
WORK == 40 * 60
SHORT_TIME == 5 * 60
LONG_TIME == 20 * 60

Lapse(duration, message, name) == [duration |-> duration, message |-> message, name |-> name]
Cycle(work, pause, name) == [work |-> work, pause |-> pause, name |-> name]

work_duration == Lapse(WORK, "tlabaja, tienes que tlabaja!!", "work time")
break_duration == Lapse(SHORT_TIME, "5 minutos de chisme", "break")
long_break_duration == Lapse(LONG_TIME, "descansa viejo", "long break")
short_cycle == Cycle(work_duration, break_duration, "short cycle")
long_cycle == Cycle(work_duration, long_break_duration, "long cycle")

\* the long cycle chosen one step early
lap_for_one_early(n) == IF (n + 1) % CYCLES = 0 THEN long_cycle ELSE short_cycle

\* long_cycle if step % CYCLES == 0 else short_cycle
lap_for(n) == IF n % CYCLES = 0 THEN long_cycle ELSE short_cycle

\* the condition of "while True"
while_condition == TRUE

\* (lap.work, lap.pause)[k]
lapse_of(c, k) == IF k = 0 THEN c.work ELSE c.pause

\* the top of the while loop: step += 1, the cycle is chosen and printed, and the
\* for loop starts; the function would return if the condition were false
begin_step ==
    /\ pom_pc = "while"
    /\ step < MaxStep
    /\ IF while_condition
       THEN /\ step' = step + 1
            /\ lap' = lap_for(step + 1)
            /\ lapse_i' = 0
            /\ pom_pc' = "notify"
       ELSE /\ pom_pc' = "returned"
            /\ UNCHANGED <<step, lap, lapse_i>>
    /\ UNCHANGED <<notified, todo_vars, sort_vars>>

\* notification.notify(title=..., message=lapse.message, timeout=DISPLAY)
notify ==
    /\ pom_pc = "notify"
    /\ LET lapse == lapse_of(lap, lapse_i)
       IN notified' = Append(notified,
              [step |-> step, title |-> <<"iniciando pomodoro sesion ", lapse.name>>,
               message |-> lapse.message, timeout |-> DISPLAY])
    /\ pom_pc' = "sleep"
    /\ UNCHANGED <<step, lap, lapse_i, todo_vars, sort_vars>>

\* time.sleep(lapse.duration) returns: the for loop goes on with lap.pause, or ends
\* and the while loop starts over
sleep ==
    /\ pom_pc = "sleep"
    /\ IF lapse_i = 0
       THEN lapse_i' = 1 /\ pom_pc' = "notify"
       ELSE lapse_i' = 0 /\ pom_pc' = "while"
    /\ UNCHANGED <<step, lap, notified, todo_vars, sort_vars>>

\* Ctrl-C at any point of the loop: "Pomodoro terminado por el usuario"
KeyboardInterrupt ==
    /\ pom_pc \in {"while", "notify", "sleep"}
    /\ pom_pc' = "interrupted"
    /\ UNCHANGED <<step, lap, lapse_i, notified, todo_vars, sort_vars>>

\* pomodoro() has been called and has set step = 0; the other programs do not run
PomodoroInit ==
    /\ step = 0 /\ lap = <<>> /\ lapse_i = 0 /\ notified = <<>> /\ pom_pc = "while"
    /\ dict_tasks = <<>> /\ history = <<>> /\ next_id = BASE_ID
    /\ csv_file = [exists |-> FALSE, rows |-> <<>>] /\ yaml_files = <<>>
    /\ now = 0 /\ pc = "exited" /\ assigned = {} /\ out = ""
    /\ data = <<>> /\ canon = <<>> /\ times = <<>> /\ log = <<>> /\ sort_pc = "off"

PomodoroNext ==
    \/ begin_step
    \/ notify
    \/ sleep
    \/ KeyboardInterrupt

PomodoroSpec == PomodoroInit /\ [][PomodoroNext]_vars

-----------------------------------------------------------------------------
(* Steps and state descriptions used by the properties below *)

\* Each step predicate compares the console message first: a step that printed
\* another handler's message is told apart at once.
AddTaskStep ==
    /\ out' = "Task added successfully!"
    /\ \E o \in OwnerInputs, t \in TitleInputs, d \in DescriptionInputs, p \in PriorityInputs :
          add_task(o, t, d, p)

UpdateTaskStep(i) ==
    /\ out' \in {"Task not found.", "Task updated successfully!"}
    /\ \E t \in TitleInputs, d \in NewDescriptionInputs, o \in NewOwnerInputs :
          update_task(i, t, d, o)

FinalizeTaskStep(i) ==
    /\ out' \in {"Task not found.", "Task already completed.", "Task finished!"}
    /\ \E s \in StatusInputs, c \in CommentInputs : finalize_task(i, s, c)

IsClosed(i) == i \in DOMAIN dict_tasks /\ dict_tasks[i].status \in TERMINAL

IsPrefix(a, b) == Len(a) <= Len(b) /\ SubSeq(b, 1, Len(a)) = a

-----------------------------------------------------------------------------
(* C1 *)

\* C1: within one process run, the id add_task assigns is greater than every id in
\* the registry (the ids loaded by load_csv and those assigned earlier in the run),
\* and next_id never decreases.
C1_IdsIncreaseWithinRun ==
    [][/\ AddTaskStep => /\ \A j \in DOMAIN dict_tasks : j < new_id
                         /\ new_id \in DOMAIN dict_tasks'
                         /\ next_id' > new_id
       /\ (pc = "running" /\ pc' = "running") => next_id' >= next_id]_vars

\* a later run has loaded a task from the CSV file (its finished_at reads '') and
\* add_task has then created one more
C1_Witness ==
    /\ csv_file.exists
    /\ pc = "running"
    /\ out = "Task added successfully!"
    /\ \E i \in DOMAIN dict_tasks : \E j \in DOMAIN dict_tasks :
          /\ i < j /\ j = next_id - 1
          /\ dict_tasks[i].finished_at = Some("")
          /\ dict_tasks[j].finished_at = None

-----------------------------------------------------------------------------
(* C2 *)

\* C2: over any sequence of sessions, the id add_task gives a new task was never
\* assigned before, in this or an earlier session.
C2_IdsNeverReused == [][AddTaskStep => new_id \notin assigned]_vars

-----------------------------------------------------------------------------
(* C3 *)

\* C3: finalize_task on a task whose status is SUCCESS or FAILED is rejected: the
\* registry (status and finished_at included) and every history stay as they were.
C3_FinalizeClosedRejected ==
    [][\A i \in IdRange :
          (IsClosed(i) /\ FinalizeTaskStep(i)) =>
              /\ dict_tasks' = dict_tasks
              /\ history' = history
              /\ out' = "Task already completed."]_vars

\* finalize_task has just been rejected for a closed task
C3_Witness ==
    /\ out = "Task already completed."
    /\ \E i \in DOMAIN dict_tasks :
          /\ dict_tasks[i].status \in TERMINAL
          /\ dict_tasks[i].finished_at # None
          /\ history[i][Len(history[i])].action = "COMPLETED"

-----------------------------------------------------------------------------
(* C4 *)

\* C4: a status only ever changes from IN PROGRESS to SUCCESS or FAILED, and a task
\* that has reached SUCCESS or FAILED is still in the registry with that status
\* after every later step, restart included.
C4_TerminalStatusKept ==
    [][\A i \in DOMAIN dict_tasks :
          /\ IsClosed(i) =>
                /\ i \in DOMAIN dict_tasks'
                /\ dict_tasks'[i].status = dict_tasks[i].status
          /\ (i \in DOMAIN dict_tasks' /\ dict_tasks'[i].status # dict_tasks[i].status) =>
                /\ dict_tasks[i].status = "IN PROGRESS"
                /\ dict_tasks'[i].status \in TERMINAL]_vars

-----------------------------------------------------------------------------
(* C5 *)

\* C5: update_task on a closed task fails as not-found and leaves the task and its
\* history unchanged.
C5_UpdateClosedRejected ==
    [][\A i \in IdRange :
          (IsClosed(i) /\ UpdateTaskStep(i)) =>
              /\ dict_tasks' = dict_tasks
              /\ history' = history
              /\ out' = "Task not found."]_vars

-----------------------------------------------------------------------------
(* C6 *)

\* C6: add_task with a priority choice that is not one of the three allowed values
\* inserts no task, writes no history record and does not advance next_id.
C6_InvalidPriorityRejected ==
    [][(\E o \in OwnerInputs, t \in TitleInputs, d \in DescriptionInputs,
           p \in PriorityInputs \ {"1", "2", "3"} : add_task(o, t, d, p)) =>
          /\ dict_tasks' = dict_tasks
          /\ history' = history
          /\ next_id' = next_id]_vars

-----------------------------------------------------------------------------
(* C7 *)

\* C7: each task's history is append-only over every step, exit and restart
\* included: the history before the step is a prefix of the history after it.
C7_HistoryAppendOnly ==
    [][\A i \in DOMAIN history : IsPrefix(history[i], HistoryOf(history', i))]_vars

-----------------------------------------------------------------------------
(* C8 *)

NonDecreasingDates(h) ==
    \A m \in 1..Len(h) : \A n \in m..Len(h) : DateValue(h[m].date) <= DateValue(h[n].date)

\* the tasks with records in memory whose log file can be written
Flushable(i) ==
    /\ i \in DOMAIN history /\ history[i] # <<>>
    /\ i \in DOMAIN dict_tasks /\ CanOpenForWrite(dict_tasks[i].uri)

\* C8: exit_app writes the log of every task whose history in memory is non-empty,
\* and after the restart the history loaded for each such task is exactly the
\* records appended so far, in append order, with non-decreasing dates (stated for
\* the tasks whose log file can be written, so that a failed write is not counted).
C8_HistoryRoundTrip ==
    [][/\ (pc = "running" /\ pc' = "exited") =>
             \A i \in DOMAIN history :
                 Flushable(i) =>
                     /\ dict_tasks[i].uri \in DOMAIN yaml_files'
                     /\ yaml_files'[dict_tasks[i].uri] = yaml_dump(history[i])
       /\ (pc = "exited" /\ pc' = "running") =>
             \A i \in DOMAIN history :
                 Flushable(i) =>
                     /\ HistoryOf(history', i) = history[i]
                     /\ NonDecreasingDates(HistoryOf(history', i))]_vars

-----------------------------------------------------------------------------
(* C9 *)

\* finished_at up to the CSV encoding of None, which is written as '' and read as ''
SameFinishedAt(a, b) == a = b \/ ({a, b} \subseteq {None, Some("")})

SameTask(a, b) ==
    /\ a.id = b.id /\ a.owner = b.owner /\ a.title = b.title
    /\ a.description = b.description /\ a.priority = b.priority /\ a.uri = b.uri
    /\ a.status = b.status /\ a.created_at = b.created_at
    /\ SameFinishedAt(a.finished_at, b.finished_at)

\* C9: save_csv followed by load_csv gives a registry with the same ids and, for
\* each id, the same fields.
C9_CsvRoundTrip ==
    LET reloaded == load_csv(save_csv(dict_tasks))
    IN /\ DOMAIN reloaded = DOMAIN dict_tasks
       /\ \A i \in DOMAIN dict_tasks : i \in DOMAIN reloaded => SameTask(reloaded[i], dict_tasks[i])

-----------------------------------------------------------------------------
(* C10 *)

Ids(tasks) == {tasks[n].id : n \in 1..Len(tasks)}
Elems(tasks) == {tasks[n] : n \in 1..Len(tasks)}

\* C10: the ALL view is the union of the IN PROGRESS and DONE views without
\* duplicates or omissions, those two are disjoint, and DONE is the union of the
\* SUCCESS and FAILED views.
C10_ViewsPartition ==
    LET all == tasks_by_status("ALL")
        open == tasks_by_status("IN PROGRESS")
        done == tasks_by_status("DONE")
        success == tasks_by_status("SUCCESS")
        failed == tasks_by_status("FAILED")
    IN /\ Elems(all) = Elems(open) \cup Elems(done)
       /\ Len(all) = Len(open) + Len(done)
       /\ Cardinality(Ids(all)) = Len(all)
       /\ Ids(open) \cap Ids(done) = {}
       /\ Elems(done) = Elems(success) \cup Elems(failed)
       /\ Len(done) = Len(success) + Len(failed)

\* the registry holds two tasks, one open and one closed as SUCCESS
C10_Witness ==
    /\ \E i \in DOMAIN dict_tasks : dict_tasks[i].status = "IN PROGRESS"
    /\ \E i \in DOMAIN dict_tasks : dict_tasks[i].status = "SUCCESS"
    /\ Len(tasks_by_status("DONE")) = 1
    /\ Len(tasks_by_status("ALL")) = 2

-----------------------------------------------------------------------------
(* C11 *)

AddEntryStep(i) ==
    /\ out' \in {"Task not found.", "Entry added to task"}
    /\ \E a \in ActivityInputs : add_entry(i, a)

ViewHistoryStep(i) ==
    /\ out' \in {"Task not found.", "No data to display.", "(table)"}
    /\ view_history(i)

\* C11: update_task, add_entry, finalize_task and view_history given an id that is
\* not in the registry (any id that can be typed, IdInputs, and is no key) report "Task not found." and leave dict_tasks, every history
\* (the keys of the mapping included) and next_id as they were; find_task gives
\* None for such an id.
C11_UnknownIdNoMutation ==
    [][\A i \in IdInputs \ DOMAIN dict_tasks :
          (UpdateTaskStep(i) \/ AddEntryStep(i) \/ FinalizeTaskStep(i) \/ ViewHistoryStep(i)) =>
              /\ find_task(i) = None
              /\ dict_tasks' = dict_tasks
              /\ history' = history
              /\ next_id' = next_id
              /\ out' = "Task not found."]_vars

\* an operation has just been refused for an unknown id while the registry holds a
\* task with records
C11_Witness ==
    /\ out = "Task not found."
    /\ next_id \notin DOMAIN dict_tasks
    /\ \E i \in DOMAIN dict_tasks : i \in DOMAIN history /\ Len(history[i]) >= 2

-----------------------------------------------------------------------------
(* C12 *)

\* C12: right after add_task, find_task of the id it assigned gives a task with that
\* id, status IN PROGRESS and finished_at None; and in a process started without
\* tasks/tasks.csv the ids assigned are 1000, 1001, ... with 1000 the first.
C12_CreatedTaskFound ==
    /\ (out = "Task added successfully!") =>
          /\ find_task(next_id - 1) # None
          /\ find_task(next_id - 1)[1].id = next_id - 1
          /\ find_task(next_id - 1)[1].status = "IN PROGRESS"
          /\ find_task(next_id - 1)[1].finished_at = None
    /\ ~csv_file.exists => DOMAIN dict_tasks = BASE_ID .. (next_id - 1)

\* the first add_task of a process started without a saved table has run
C12_Witness ==
    /\ ~csv_file.exists
    /\ out = "Task added successfully!"
    /\ DOMAIN dict_tasks = {BASE_ID}
    /\ next_id = BASE_ID + 1

-----------------------------------------------------------------------------
(* C13 *)

\* the file u holds the log task i had under an earlier uri: its name ends with the
\* id, it is not the task's present uri, and the records in it are the first
\* records of the task's history in memory
IsOldLogOf(u, i) ==
    /\ u # dict_tasks[i].uri
    /\ u # <<>> /\ u[Len(u)] = IntToStr(i)
    /\ yaml_files[u] # <<>>
    /\ IsPrefix([n \in 1..Len(yaml_files[u]) |-> Entry_from(yaml_files[u][n])],
                HistoryOf(history, i))

\* C13: when update_task has changed the owner of a task whose log is on disk, the
\* exit_app that follows leaves the log under the new uri with every earlier record,
\* and no file under the old uri (stated for new uris that can be written).
C13_LogRelocated ==
    [][(pc = "running" /\ pc' = "exited") =>
          \A i \in DOMAIN dict_tasks : \A u \in DOMAIN yaml_files :
              (IsOldLogOf(u, i) /\ CanOpenForWrite(dict_tasks[i].uri)) =>
                  /\ dict_tasks[i].uri \in DOMAIN yaml_files'
                  /\ yaml_files'[dict_tasks[i].uri] = yaml_dump(history[i])
                  /\ u \notin DOMAIN yaml_files']_vars

-----------------------------------------------------------------------------
(* C14 *)

\* C14: in every state reached, restart included, finished_at of a task is None
\* exactly when its status is IN PROGRESS, and once finalize_task has set it, it
\* keeps its value for as long as the task is in the registry.
C14_FinishedAtNullIffOpen ==
    [][\A i \in DOMAIN dict_tasks' :
          /\ (dict_tasks'[i].finished_at = None) <=> (dict_tasks'[i].status = "IN PROGRESS")
          /\ (i \in DOMAIN dict_tasks /\ dict_tasks[i].status \in TERMINAL) =>
                dict_tasks'[i].finished_at = dict_tasks[i].finished_at]_vars

-----------------------------------------------------------------------------
(* C15 *)

\* C15: update_task of a task in the registry changes only title, description, owner
\* and uri of that task: its id, priority, status, created_at and finished_at, every
\* other task, the set of ids and next_id stay as they were; an answer that is empty
\* after strip() keeps the field's value, any other answer replaces it.
C15_UpdateFrame ==
    [][\A i \in DOMAIN dict_tasks :
          \A t \in TitleInputs, d \in NewDescriptionInputs, o \in NewOwnerInputs :
              (out' = "Task updated successfully!" /\ update_task(i, t, d, o)) =>
                  /\ DOMAIN dict_tasks' = DOMAIN dict_tasks
                  /\ \A j \in DOMAIN dict_tasks \ {i} : dict_tasks'[j] = dict_tasks[j]
                  /\ next_id' = next_id
                  /\ dict_tasks'[i].id = dict_tasks[i].id
                  /\ dict_tasks'[i].priority = dict_tasks[i].priority
                  /\ dict_tasks'[i].status = dict_tasks[i].status
                  /\ dict_tasks'[i].created_at = dict_tasks[i].created_at
                  /\ dict_tasks'[i].finished_at = dict_tasks[i].finished_at
                  /\ dict_tasks'[i].title =
                        IF Strip(t) = <<>> THEN dict_tasks[i].title ELSE Strip(t)
                  /\ dict_tasks'[i].description =
                        IF Strip(d) = <<>> THEN dict_tasks[i].description ELSE Strip(d)
                  /\ dict_tasks'[i].owner =
                        IF Strip(o) = <<>> THEN dict_tasks[i].owner ELSE Strip(o)]_vars

\* update_task has just given the second of two tasks a new owner while its title
\* and description, for which nothing was typed, are those add_task stored
C15_Witness ==
    /\ out = "Task updated successfully!"
    /\ Cardinality(DOMAIN dict_tasks) = 2
    /\ \E i \in DOMAIN dict_tasks :
          /\ dict_tasks[i].owner = <<"c">>
          /\ dict_tasks[i].title = <<"t">>
          /\ dict_tasks[i].description = <<"d">>
          /\ Len(history[i]) = 2
          /\ history[i][2].action = "UPDATED"

-----------------------------------------------------------------------------
(* C16 *)

\* uri is the owner with every space turned into an underscore, then an underscore,
\* then the decimal id
UriDerived(t) ==
    /\ Len(t.uri) = Len(t.owner) + 2
    /\ \A n \in 1..Len(t.owner) :
          t.uri[n] = (IF t.owner[n] = " " THEN "_" ELSE t.owner[n])
    /\ t.uri[Len(t.owner) + 1] = "_"
    /\ t.uri[Len(t.owner) + 2] = ToString(t.id)

\* C16: in every state reached, the uri of every task is the value derived from its
\* present owner and id, and this is still so for the registry that load_csv builds
\* from what save_csv writes.
C16_UriDerivedFromOwner ==
    /\ \A i \in DOMAIN dict_tasks : dict_tasks[i].id = i /\ UriDerived(dict_tasks[i])
    /\ LET reloaded == load_csv(save_csv(dict_tasks))
       IN \A i \in DOMAIN reloaded : reloaded[i].id = i /\ UriDerived(reloaded[i])

\* a later run holds a task loaded from the CSV file whose owner has a space, and
\* another task that update_task has given a new owner
C16_Witness ==
    /\ csv_file.exists
    /\ pc = "running"
    /\ \E i \in DOMAIN dict_tasks :
          /\ dict_tasks[i].owner = <<"a", " ", "b">>
          /\ dict_tasks[i].uri = <<"a", "_", "b", "_", ToString(i)>>
          /\ dict_tasks[i].finished_at = Some("")
    /\ \E j \in DOMAIN dict_tasks :
          /\ dict_tasks[j].owner = <<"c">>
          /\ dict_tasks[j].uri = <<"c", "_", ToString(j)>>

-----------------------------------------------------------------------------
(* C17 *)

\* C17: view_tasks with any filter and view_history with any id leave dict_tasks,
\* the history mapping (its keys and every record sequence) and next_id exactly as
\* they were, and the same call made again in the state they leave prints the same.
C17_ViewsArePure ==
    [][/\ \A f \in FilterInputs :
             view_tasks(f) =>
                 /\ dict_tasks' = dict_tasks /\ history' = history /\ next_id' = next_id
                 /\ out' = (printed(tasks_by_status(filter_typed(f))))'
       /\ \A i \in IdInputs :
             view_history(i) =>
                 /\ dict_tasks' = dict_tasks /\ history' = history /\ next_id' = next_id
                 /\ (find_task(i) # None) => out' = (printed(HistoryOf(history, i)))']_vars

-----------------------------------------------------------------------------
(* C18 *)

\* the number of CREATED records in a history
RECURSIVE NumCreated(_)
NumCreated(h) ==
    IF h = <<>> THEN 0
    ELSE (IF Head(h).action = "CREATED" THEN 1 ELSE 0) + NumCreated(Tail(h))

\* C18: add_task leaves the new task with a history of exactly one record, the
\* CREATED record it wrote; add_entry on a task in the registry appends exactly one
\* ENTRY record at the end of that task's history and changes no other history; and
\* while a process runs no other step adds or removes a CREATED record.
C18_CreatedThenEntries ==
    [][/\ AddTaskStep =>
             /\ new_id \in DOMAIN history'
             /\ Len(history'[new_id]) = 1
             /\ history'[new_id][1].action = "CREATED"
             /\ history'[new_id][1].date = get_date(1)
             /\ \A j \in DOMAIN history : j # new_id => history'[j] = history[j]
       /\ \A i \in DOMAIN dict_tasks : \A a \in ActivityInputs :
             (out' = "Entry added to task" /\ add_entry(i, a)) =>
                 /\ Len(history'[i]) = Len(HistoryOf(history, i)) + 1
                 /\ SubSeq(history'[i], 1, Len(HistoryOf(history, i))) = HistoryOf(history, i)
                 /\ history'[i][Len(history'[i])] = Entry(get_date(0), "ENTRY", Strip(a))
                 /\ \A j \in DOMAIN history : j # i => history'[j] = history[j]
       /\ (pc = "running" /\ pc' = "running" /\ ~AddTaskStep) =>
             \A j \in DOMAIN history' :
                 \/ j \in DOMAIN history /\ history'[j] = history[j]
                 \/ NumCreated(history'[j]) = NumCreated(HistoryOf(history, j))]_vars

\* add_task followed by one add_entry: the history of the task is [CREATED, ENTRY]
C18_Witness ==
    /\ out = "Entry added to task"
    /\ \E i \in DOMAIN dict_tasks :
          /\ i \in DOMAIN history
          /\ Len(history[i]) = 2
          /\ history[i][1].action = "CREATED"
          /\ history[i][2].action = "ENTRY"
          /\ history[i][2].activity = <<"n">>

-----------------------------------------------------------------------------
(* C19 *)

\* the positions of the COMPLETED records in a history
CompletedAt(h) == {n \in 1..Len(h) : h[n].action = "COMPLETED"}

\* C19: in the runs without storage failures, in every state reached and for every
\* task in the registry, the task's history has a COMPLETED record exactly when the
\* status is SUCCESS or FAILED, it has at most one, and that record's activity
\* ("Task marked as <status>. Comment: ...") names the task's status.
C19_CompletedIffTerminal ==
    \A i \in DOMAIN dict_tasks :
        LET h == HistoryOf(history, i)
        IN /\ (CompletedAt(h) # {}) <=> (dict_tasks[i].status \in TERMINAL)
           /\ Cardinality(CompletedAt(h)) <= 1
           /\ \A n \in CompletedAt(h) :
                 /\ h[n].activity[1] = "Task marked as "
                 /\ h[n].activity[2] = dict_tasks[i].status

\* a later run has loaded a task closed as FAILED together with its log, which ends
\* with the COMPLETED record, and holds an open task as well
C19_Witness ==
    /\ csv_file.exists
    /\ pc = "running"
    /\ \E i \in DOMAIN dict_tasks :
          /\ dict_tasks[i].status = "FAILED"
          /\ dict_tasks[i].finished_at \notin {None, Some("")}
          /\ i \in DOMAIN history
          /\ history[i][Len(history[i])].action = "COMPLETED"
          /\ history[i][Len(history[i])].activity[2] = "FAILED"
    /\ \E j \in DOMAIN dict_tasks :
          /\ dict_tasks[j].status = "IN PROGRESS"
          /\ CompletedAt(HistoryOf(history, j)) = {}

-----------------------------------------------------------------------------
(* C20 *)

\* C20: for every input list, lists with several records of the same CC included,
\* the result of each of heapsort, bubblesort, python_sort and quicksort equals
\* canon = sorted(data, key=CC), test_sort logs no error, and data is not modified.
C20_SortsMatchReference ==
    [][/\ data' = data
       /\ \A k \in 1..Len(times') : times'[k].result = canon'
       /\ \A k \in 1..Len(log') : log'[k].level = "INFO"]_vars

-----------------------------------------------------------------------------
(* C21 *)

\* the name at the end of a notification's title
LapseName(n) == n.title[2]

\* C21: the notifications of the pomodoro loop come in pairs, one pair per step
\* n = 1, 2, ...: first the work lapse of step n, then its pause, which is the long
\* break exactly when n is a multiple of 4 and the short break otherwise; and the
\* loop is never left other than by a KeyboardInterrupt.
C21_PomodoroOrder ==
    /\ pom_pc # "returned"
    /\ pom_pc \in {"while", "notify", "sleep"} =>
          Len(notified) = 2 * (step - 1)
                          + (CASE pom_pc = "while" -> 2
                               [] pom_pc = "notify" -> lapse_i
                               [] pom_pc = "sleep" -> lapse_i + 1)
    /\ \A k \in 1..Len(notified) :
          /\ notified[k].step = (k + 1) \div 2
          /\ (k % 2 = 1) => LapseName(notified[k]) = "work time"
          /\ (k % 2 = 0) =>
                LapseName(notified[k]) =
                    (IF notified[k].step % 4 = 0 THEN "long break" ELSE "break")

\* the loop is running its ninth step: the pause of step 4 was the long break, the
\* pause of step 5 the short one, and the pause of step 8 the long break again
C21_Witness ==
    /\ pom_pc = "sleep"
    /\ step = 9
    /\ Len(notified) = 17
    /\ LapseName(notified[8]) = "long break" /\ notified[8].step = 4
    /\ LapseName(notified[10]) = "break" /\ notified[10].step = 5
    /\ LapseName(notified[16]) = "long break" /\ notified[16].step = 8
    /\ LapseName(notified[17]) = "work time" /\ notified[17].step = 9

====
